---- MODULE Spec2Model ----
(***************************************************************************)
(* A model of src/progress_bar.cpp: one ProgressBar instance, driven by    *)
(* several host threads.  Every action is one step of a member function;   *)
(* the step labels are the source lines at which the thread stands.        *)
(***************************************************************************)
EXTENDS Integers, Sequences, FiniteSets, TLC

(* ------------------------------ bounds --------------------------------- *)

\* largest total_ a bar is constructed with
MaxTotal == 3
\* member-function calls made on the bar over its lifetime when two host
\* threads share it
MaxCalls == 2
\* member-function calls made on the bar over its lifetime when one host
\* thread drives it
MaxSeqCalls == 3
\* largest ordinary increment
MaxDelta == 2
\* width of the stand-in for uint64_t, in bits
WordBits == 4

\* the host threads that may share the bar
Threads == {1, 2}
\* the constructor and the destructor run on the thread that owns the bar
Main == 0

(* --------------------------- program constants ------------------------- *)

kMessageSize == 20
kCharacterWidthPercentage == 7
kDefaultConsoleWidth == 100
kMaxBarWidth == 120

\* uint64_t arithmetic is modulo Modulus
Modulus == 2 ^ WordBits

(* ----------------------------- inputs ---------------------------------- *)

Totals == 0..MaxTotal
\* deltas of operator+=: zero, ordinary ones, and one that wraps the counter
Deltas == (0..MaxDelta) \cup {Modulus - 1}
\* arguments of SetFrequencyUpdate
FreqArgs == {0, 2, Modulus - 1}
\* output streams a bar can be given: std::cout, std::cerr, any other stream
Sinks == {"cout", "cerr", "other"}
\* arguments of SetStyle: <<unit_bar, unit_space>>
StyleArgs == {<<"#", "-">>}
\* widths GetConsoleWidth can report: below the reserved overhead, leaving no
\* room for the bar, and the fallback, which leaves room
ConsoleWidths == {30, 38, kDefaultConsoleWidth}

Min(a, b) == IF a < b THEN a ELSE b
Max(a, b) == IF a > b THEN a ELSE b

VARIABLES
    silent_,          \* bool silent_
    total_,           \* uint64_t total_
    logging_mode_,    \* bool logging_mode_
    progress_,        \* std::atomic<uint64_t> progress_
    frequency_update, \* uint64_t frequency_update
    start_time_,      \* std::atomic<time_point> start_time_: << >> until stored
    unit_bar_,        \* char unit_bar_
    unit_space_,      \* char unit_space_
    buffer_,          \* mutable std::string buffer_: << >> or <<frame>>
    mu_,              \* mutable std::mutex mu_: the set of its holders
    out,              \* the bytes written to *out, as a sequence of writes
    life,             \* "alive", "destroyed", "aborted"
    pc,               \* per thread: the source line it stands at
    arg,              \* per thread: the argument of the call it is in
    after_update,     \* per thread: local after_update of operator+=
    nthreads,         \* how many of Threads the host runs
    ncalls,           \* calls made so far
    issued,           \* sum of the deltas of the operator+= calls made so far
    shows,            \* ShowProgress invocations so far
    skipped,          \* ShowProgress invocations that returned at line 163
    incs,             \* operator+= calls made so far
    fmoved            \* frequency_update was rewritten after an increment began

\* what the constructor fixes for the bar's lifetime
fixed == <<silent_, total_, logging_mode_, nthreads>>

vars == <<silent_, total_, logging_mode_, progress_, frequency_update,
          start_time_, unit_bar_, unit_space_, buffer_, mu_, out, life, pc,
          arg, after_update, nthreads, ncalls, issued, shows, skipped,
          incs, fmoved>>

(* ------------------------------ to_terminal --------------------------- *)

\* to_terminal(os), lines 27-40: ttys is the set of standard streams for which
\* isatty holds.  Only std::cout and std::cerr are ever found not to be one.
to_terminal(os, ttys) ==
    IF os = "cout" /\ "cout" \notin ttys THEN FALSE
    ELSE IF os = "cerr" /\ "cerr" \notin ttys THEN FALSE
    ELSE TRUE

(* ------------------------------ geometry ------------------------------- *)

\* floor(log10(n)) + 1 for n >= 1: the number of decimal digits of n
RECURSIVE NumDigits(_)
NumDigits(n) == IF n < 10 THEN 1 ELSE 1 + NumDigits(n \div 10)

\* The value of the size_t part of GetBarLength's expression, before the
\* size_t arithmetic wraps: min(width, kMaxBarWidth) - 9 - description_.size()
\* - kCharacterWidthPercentage.
BarRoom(width) ==
    Min(width, kMaxBarWidth) - 9 - kMessageSize - kCharacterWidthPercentage

\* GetBarLength for a console width: the set of values the call can return.
\* The subtraction of description_.size() is done in size_t, so a negative
\* BarRoom wraps to about 2^64; the double made from it is out of int's range
\* and its conversion to the int return value is undefined: the conversion
\* instruction in use decides between the lowest and the highest int.
GetBarLength(width) ==
    IF BarRoom(width) >= 0
    THEN {BarRoom(width) - NumDigits(Max(2, total_)) * 2}
    ELSE {-2147483647 - 1, 2147483647}

(* ------------------------------ formatting ----------------------------- *)

Digit(d) == <<"0", "1", "2", "3", "4", "5", "6", "7", "8", "9">>[d + 1]

\* std::to_string of a nonnegative integer, as a sequence of characters
RECURSIVE to_string(_)
to_string(n) == IF n < 10 THEN <<Digit(n)>>
                ELSE to_string(n \div 10) \o <<Digit(n % 10)>>

Spaces(n) == [i \in 1..n |-> " "]

\* a ratio that takes a bar of total 0 as not yet started
TenthsFromZero(progress) ==
    IF total_ = 0 THEN 0
    ELSE LET q == (progress * 1000) \div total_
             r == (progress * 1000) % total_
         IN  IF 2 * r > total_ \/ (2 * r = total_ /\ q % 2 = 1)
             THEN q + 1 ELSE q

\* progress_ratio * kTotalPercentage rounded to one decimal, in tenths of a
\* percent, as printf's %.1f rounds it (to nearest, an exact tie to even);
\* progress_ratio is 1.0 when total_ is 0
Tenths(progress) ==
    IF total_ = 0 THEN 1000
    ELSE LET q == (progress * 1000) \div total_
             r == (progress * 1000) % total_
         IN  IF 2 * r > total_ \/ (2 * r = total_ /\ q % 2 = 1)
             THEN q + 1 ELSE q

\* what "%5.1f%%" produces for a value given in tenths
Format51(tenths) ==
    LET body == to_string(tenths \div 10) \o <<".", Digit(tenths % 10)>>
    IN  Spaces(Max(0, 5 - Len(body))) \o body \o <<"%">>

\* a get_progress_summary that keeps the buffer's last character
get_progress_summaryNoPop(progress) ==
    LET text    == Format51(Tenths(progress))
        written == SubSeq(text, 1, Min(Len(text), kCharacterWidthPercentage - 1))
        buffer  == written \o <<"NUL">>
                   \o Spaces(kCharacterWidthPercentage - Len(written) - 1)
    IN  buffer

\* get_progress_summary: snprintf writes at most kCharacterWidthPercentage - 1
\* characters and a terminating NUL into a buffer of kCharacterWidthPercentage
\* spaces; pop_back drops the buffer's last character.
get_progress_summary(progress) ==
    LET text    == Format51(Tenths(progress))
        written == SubSeq(text, 1, Min(Len(text), kCharacterWidthPercentage - 1))
        buffer  == written \o <<"NUL">>
                   \o Spaces(kCharacterWidthPercentage - Len(written) - 1)
    IN  SubSeq(buffer, 1, kCharacterWidthPercentage - 1)

\* std::chrono::system_clock::now(): time is read off the calls made on the
\* bar so far, so it never runs backwards and a later call reads a later time
now == ncalls

(* ------------------------------ the sink ------------------------------- *)

\* One write to *out.  k is what is written:
\*   "header"  description_ and std::endl               (line 55)
\*   "log"     a timestamped log line ending in '\n'    (line 151)
\*   "blank"   buffer_.size() spaces and '\r'           (line 157)
\*   "frame"   the bar line ending in '\r'              (line 174)
\*   "endl"    std::endl                                (lines 61, 206)
\*   "nl"      "\n"                                     (line 69)
\* by is the writing thread and held whether it holds mu_ while writing; p is
\* the progress shown, bar the bar length, st the start_time_ the remaining
\* time is computed from, ub and us the style characters, prev the text a
\* "blank" overwrites.
Write(k, by, held, p, bar, st, ub, us, prev) ==
    [k |-> k, by |-> by, held |-> held, p |-> p, bar |-> bar, st |-> st,
     ub |-> ub, us |-> us, prev |-> prev]

Plain(k, by, held) == Write(k, by, held, 0, 0, << >>, "", "", << >>)

\* lines 61 and 206: std::endl, written by the call that found the count p
\* equal to total_
EndLine(by, held, p) == Write("endl", by, held, p, 0, << >>, "", "", << >>)

\* size_t(bar_size * progress_ratio), progress_ratio being 1.0 when total_ is 0
Filled(bar, progress) ==
    IF total_ = 0 THEN bar ELSE (bar * progress) \div total_

\* lines 145-151: the log line of ShowProgress(progress)
LogLine(by, held, progress) ==
    Write("log", by, held, progress, 0, start_time_, "", "", << >>)

\* line 157: the previous frame overwritten with spaces
BlankLine(by, held, buf) ==
    Write("blank", by, held, 0, 0, << >>, "", "", buf)

\* lines 166-174: the frame of ShowProgress(progress) for a bar length
FrameLine(by, held, progress, bar) ==
    Write("frame", by, held, progress, bar, start_time_,
          unit_bar_, unit_space_, << >>)

\* The characters of a write, the remaining time left as one token.
Text(w) ==
    CASE w.k = "header" -> <<"description", "\n">>
      [] w.k = "endl"   -> <<"\n">>
      [] w.k = "nl"     -> <<"\n">>
      [] w.k = "blank"  -> <<"spaces", "\r">>
      [] w.k = "log"    ->
            <<"timestamp", "\t">> \o get_progress_summary(w.p)
            \o <<",", " ">> \o to_string(w.p) \o <<"/">> \o to_string(total_)
            \o <<",", " ", "eta", " remaining", "\n">>
      [] w.k = "frame"  ->
            <<" ", "description", " ", "[", "bar", "]", " ">>
            \o get_progress_summary(w.p)
            \o <<",", " ">> \o to_string(w.p) \o <<"/">> \o to_string(total_)
            \o <<",", " ", "eta", " remaining", "\r">>

\* a mode test that never finds logging mode
InLoggingModeNever == FALSE

\* line 139: the mode test of ShowProgress
InLoggingMode == logging_mode_

\* ShowProgress(progress) run to completion by a thread that finds mu_ free:
\* the set of its outcomes [out, buffer, skipped], one per console width and
\* outcome of GetBarLength.  Lines 127-181.
ShowProgress(by, progress, buf) ==
    IF silent_
    THEN {[out |-> << >>, buffer |-> buf, skipped |-> 0]}
    ELSE IF InLoggingMode
    THEN {[out |-> <<LogLine(by, TRUE, progress)>>, buffer |-> buf,
           skipped |-> 0]}
    ELSE UNION {
           { IF bar < 1
             THEN [out |-> <<BlankLine(by, TRUE, buf)>>, buffer |-> << >>,
                   skipped |-> 1]
             ELSE [out |-> <<BlankLine(by, TRUE, buf),
                             FrameLine(by, TRUE, progress, bar)>>,
                   buffer |-> <<FrameLine(by, TRUE, progress, bar)>>,
                   skipped |-> 0]
             : bar \in GetBarLength(width) }
           : width \in ConsoleWidths }


(* ---------------------------- construction ----------------------------- *)

\* values the frequency_update the constructor leaves unassigned can hold
Indeterminate == {0, 1}

\* ProgressBar::ProgressBar, lines 42-62: the state it leaves.  A silent bar
\* returns at line 49 with frequency_update and logging_mode_ unassigned:
\* they hold either value.  progress_, start_time_, unit_bar_ and unit_space_
\* are not assigned by the constructor and start as their declarations leave
\* them; the test of line 60 relies on progress_ starting at 0.
Init ==
    \E total \in Totals, silent \in BOOLEAN, out_ \in Sinks,
       ttys \in SUBSET {"cout", "cerr"} :
        /\ total_ = total
        /\ silent_ = silent
        /\ progress_ = 0
        /\ start_time_ = << >>
        /\ unit_bar_ = "="
        /\ unit_space_ = " "
        /\ mu_ = {}
        /\ life = "alive"
        /\ pc = [t \in Threads |-> "idle"]
        /\ arg = [t \in Threads |-> 0]
        /\ after_update = [t \in Threads |-> 0]
        /\ nthreads \in 1..Cardinality(Threads)
        /\ ncalls = 0
        /\ issued = 0
        /\ incs = 0
        /\ fmoved = FALSE
        /\ IF silent
           THEN /\ frequency_update \in Indeterminate
                /\ logging_mode_ \in BOOLEAN
                /\ out = << >>
                /\ buffer_ = << >>
                /\ shows = 0
                /\ skipped = 0
           ELSE /\ frequency_update = Max(1, total \div 1000)
                /\ logging_mode_ = ~to_terminal(out_, ttys)
                /\ \E r \in ShowProgress(Main, 0, << >>) :
                     /\ out = (IF logging_mode_
                               THEN <<Plain("header", Main, FALSE)>>
                               ELSE << >>)
                              \o r.out
                              \o (IF 0 = total
                                  THEN <<EndLine(Main, FALSE, 0)>>
                                  ELSE << >>)
                     /\ buffer_ = r.buffer
                     /\ skipped = r.skipped
                /\ shows = 1

(* ----------------------------- operator+= ------------------------------ *)

Alive == life = "alive"

\* the host lets thread t make one more call on the bar
MayCall(t) ==
    /\ t <= nthreads
    /\ ncalls < (IF nthreads = 1 THEN MaxSeqCalls ELSE MaxCalls)

Goto(t, line) == pc' = [pc EXCEPT ![t] = line]

\* a line 191 that lets a silent bar through
Line191NoSilent(t) == IF arg[t] = 0 THEN "idle" ELSE "L194"

\* line 191: a silent bar or a zero delta returns before the counter is touched
Line191(t) == IF silent_ \/ arg[t] = 0 THEN "idle" ELSE "L194"

\* A thread calls operator+=(delta) (operator++ is operator+=(1), line 184).
Increment(t) ==
    \E delta \in Deltas :
        /\ Alive /\ pc[t] = "idle" /\ MayCall(t)
        /\ arg' = [arg EXCEPT ![t] = delta]
        /\ ncalls' = ncalls + 1
        /\ incs' = incs + 1
        /\ issued' = issued + delta
        /\ Goto(t, "L188")
        /\ UNCHANGED <<fixed, progress_, frequency_update, start_time_,
                       unit_bar_, unit_space_, buffer_, mu_, out, life,
                       after_update, shows, skipped, fmoved>>

\* line 188: progress_.load() == 0
LoadProgress(t) ==
    /\ Alive /\ pc[t] = "L188"
    /\ Goto(t, IF progress_ = 0 THEN "L189" ELSE Line191(t))
    /\ UNCHANGED <<fixed, progress_, frequency_update, start_time_, unit_bar_,
                   unit_space_, buffer_, mu_, out, life, arg, after_update,
                   ncalls, issued, shows, skipped, incs, fmoved>>

\* line 189: start_time_.store(now())
StoreStartTime(t) ==
    /\ Alive /\ pc[t] = "L189"
    /\ start_time_' = <<now>>
    /\ Goto(t, Line191(t))
    /\ UNCHANGED <<fixed, progress_, frequency_update, unit_bar_, unit_space_,
                   buffer_, mu_, out, life, arg, after_update, ncalls, issued,
                   shows, skipped, incs, fmoved>>

\* a fetch_add that counts the call, not its delta
FetchAddOne(old, delta) == (old + 1) % Modulus

\* line 195: what fetch_add leaves in progress_, in uint64_t arithmetic
FetchAdd(old, delta) == (old + delta) % Modulus

\* an assertion that never fires
AssertOff(after) == TRUE

\* line 197: assert(after_update <= total_)
AssertHolds(after) == after <= total_

\* lines 194-197: the atomic fetch_add and the assertion on its result
AddAndAssert(t) ==
    /\ Alive /\ pc[t] = "L194"
    /\ progress_' = FetchAdd(progress_, arg[t])
    /\ after_update' = [after_update EXCEPT ![t] = progress_']
    /\ IF AssertHolds(progress_')
       THEN life' = life /\ Goto(t, "L200")
       ELSE life' = "aborted" /\ Goto(t, "L197")
    /\ UNCHANGED <<fixed, frequency_update, start_time_, unit_bar_,
                   unit_space_, buffer_, mu_, out, arg, ncalls, issued, shows,
                   skipped, incs, fmoved>>

\* a throttle test that compares the buckets with <=
ThrottleEvery(after, delta, freq) ==
    IF after = total_ THEN {"show"}
    ELSE IF freq = 0 THEN {"trap", "show", "skip"}
    ELSE IF ((after - delta) % Modulus) \div freq <= after \div freq
         THEN {"show"} ELSE {"skip"}

\* lines 200-202: the outcomes of the throttle test: "show", "skip", or
\* "trap" when the division traps.  A division by zero is undefined: it traps
\* or yields whatever quotient the hardware gives.
Throttle(after, delta, freq) ==
    IF after = total_ THEN {"show"}
    ELSE IF freq = 0 THEN {"trap", "show", "skip"}
    ELSE IF ((after - delta) % Modulus) \div freq < after \div freq
         THEN {"show"} ELSE {"skip"}

\* lines 200-203: the throttle test, reading frequency_update without mu_
Decide(t) ==
    /\ Alive /\ pc[t] = "L200"
    /\ \E o \in Throttle(after_update[t], arg[t], frequency_update) :
         /\ life' = IF o = "trap" THEN "aborted" ELSE life
         /\ shows' = IF o = "show" THEN shows + 1 ELSE shows
         /\ Goto(t, CASE o = "show" -> "L131"
                      [] o = "skip" -> "L205"
                      [] o = "trap" -> "L201")
    /\ UNCHANGED <<fixed, progress_, frequency_update, start_time_, unit_bar_,
                   unit_space_, buffer_, mu_, out, arg, after_update, ncalls,
                   issued, skipped, incs, fmoved>>

(* ---------------- ShowProgress, called from operator+= ----------------- *)

\* a guard that goes out of scope without releasing mu_
UnlockLeak(t) == mu_

\* std::lock_guard's destructor at the end of the scope opened at lines 74,
\* 84 and 131: mu_ is released on return
Unlock(t) == mu_ \ {t}

\* line 131: std::lock_guard takes mu_
Lock(t) ==
    /\ Alive /\ pc[t] = "L131"
    /\ mu_ = {}
    /\ mu_' = {t}
    /\ Goto(t, "L139")
    /\ UNCHANGED <<fixed, progress_, frequency_update, start_time_, unit_bar_,
                   unit_space_, buffer_, out, life, arg, after_update, ncalls,
                   issued, shows, skipped, incs, fmoved>>

\* lines 139-153 in logging mode: the log line is written and the call
\* returns; lines 155-158 otherwise: the previous frame is blanked.
Render(t) ==
    /\ Alive /\ pc[t] = "L139"
    /\ IF InLoggingMode
       THEN /\ out' = Append(out, LogLine(t, t \in mu_, after_update[t]))
            /\ mu_' = Unlock(t)
            /\ buffer_' = buffer_
            /\ Goto(t, "L205")
       ELSE /\ out' = Append(out, BlankLine(t, t \in mu_, buffer_))
            /\ buffer_' = << >>
            /\ mu_' = mu_
            /\ Goto(t, "L161")
    /\ UNCHANGED <<fixed, progress_, frequency_update, start_time_, unit_bar_,
                   unit_space_, life, arg, after_update, ncalls, issued,
                   shows, skipped, incs, fmoved>>

\* lines 161-174 and the guard's release: the bar length is computed; below 1
\* the call returns, otherwise the frame is built, remembered and written.
Draw(t) ==
    /\ Alive /\ pc[t] = "L161"
    /\ \E width \in ConsoleWidths : \E bar \in GetBarLength(width) :
         IF bar < 1
         THEN /\ skipped' = skipped + 1
              /\ UNCHANGED <<out, buffer_>>
         ELSE /\ buffer_' = <<FrameLine(t, t \in mu_, after_update[t], bar)>>
              /\ out' = Append(out, buffer_'[1])
              /\ skipped' = skipped
    /\ mu_' = Unlock(t)
    /\ Goto(t, "L205")
    /\ UNCHANGED <<fixed, progress_, frequency_update, start_time_, unit_bar_,
                   unit_space_, life, arg, after_update, ncalls, issued,
                   shows, incs, fmoved>>

\* a completion test made on the shared counter
CompletesShared(t) == progress_ = total_

\* line 205: the test made by thread t on its own after_update
Completes(t) == after_update[t] = total_

\* lines 205-208: the increment that reached total_ ends the line; return
Finish(t) ==
    /\ Alive /\ pc[t] = "L205"
    /\ out' = IF Completes(t)
              THEN Append(out, EndLine(t, t \in mu_, after_update[t]))
              ELSE out
    /\ Goto(t, "idle")
    /\ UNCHANGED <<fixed, progress_, frequency_update, start_time_, unit_bar_,
                   unit_space_, buffer_, mu_, life, arg, after_update, ncalls,
                   issued, shows, skipped, incs, fmoved>>

(* ------------------------------- setters ------------------------------- *)

\* line 73: SetFrequencyUpdate(n) is called
SetFrequencyUpdate(t) ==
    \E n \in FreqArgs :
        /\ Alive /\ pc[t] = "idle" /\ MayCall(t)
        /\ arg' = [arg EXCEPT ![t] = n]
        /\ ncalls' = ncalls + 1
        /\ Goto(t, "L74")
        /\ UNCHANGED <<fixed, progress_, frequency_update, start_time_,
                       unit_bar_, unit_space_, buffer_, mu_, out, life,
                       after_update, issued, shows, skipped, incs, fmoved>>

\* line 74: std::lock_guard takes mu_
LockFrequency(t) ==
    /\ Alive /\ pc[t] = "L74"
    /\ mu_ = {}
    /\ mu_' = {t}
    /\ Goto(t, "L76")
    /\ UNCHANGED <<fixed, progress_, frequency_update, start_time_, unit_bar_,
                   unit_space_, buffer_, out, life, arg, after_update, ncalls,
                   issued, shows, skipped, incs, fmoved>>

\* lines 76-80: the value SetFrequencyUpdate(n) stores
Clamp(n) == IF n > total_ THEN total_ ELSE n

\* lines 76-81: the store and the guard's release
StoreFrequency(t) ==
    /\ Alive /\ pc[t] = "L76"
    /\ frequency_update' = Clamp(arg[t])
    /\ fmoved' = (fmoved \/ incs > 0)
    /\ mu_' = Unlock(t)
    /\ Goto(t, "idle")
    /\ UNCHANGED <<fixed, progress_, start_time_, unit_bar_, unit_space_,
                   buffer_, out, life, arg, after_update, ncalls, issued,
                   shows, skipped, incs>>

\* line 83: SetStyle(unit_bar, unit_space) is called
SetStyle(t) ==
    \E style \in StyleArgs :
        /\ Alive /\ pc[t] = "idle" /\ MayCall(t)
        /\ arg' = [arg EXCEPT ![t] = style]
        /\ ncalls' = ncalls + 1
        /\ Goto(t, "L84")
        /\ UNCHANGED <<fixed, progress_, frequency_update, start_time_,
                       unit_bar_, unit_space_, buffer_, mu_, out, life,
                       after_update, issued, shows, skipped, incs, fmoved>>

\* line 84: std::lock_guard takes mu_
LockStyle(t) ==
    /\ Alive /\ pc[t] = "L84"
    /\ mu_ = {}
    /\ mu_' = {t}
    /\ Goto(t, "L86")
    /\ UNCHANGED <<fixed, progress_, frequency_update, start_time_, unit_bar_,
                   unit_space_, buffer_, out, life, arg, after_update, ncalls,
                   issued, shows, skipped, incs, fmoved>>

\* lines 86-88: the stores and the guard's release
StoreStyle(t) ==
    /\ Alive /\ pc[t] = "L86"
    /\ unit_bar_' = arg[t][1]
    /\ unit_space_' = arg[t][2]
    /\ mu_' = Unlock(t)
    /\ Goto(t, "idle")
    /\ UNCHANGED <<fixed, progress_, frequency_update, start_time_, buffer_,
                   out, life, arg, after_update, ncalls, issued, shows,
                   skipped, incs, fmoved>>

(* ----------------------------- destruction ----------------------------- *)

\* a destructor that writes its newline whatever silent_ is
TrailerAlways == <<Plain("nl", Main, FALSE)>>

\* lines 68-69: what the destructor writes after its ShowProgress
Trailer == IF ~silent_ THEN <<Plain("nl", Main, FALSE)>> ELSE << >>

\* a destructor that renders whether or not the bar was completed
UnfinishedAlways == TRUE

\* line 65: the destructor's test
Unfinished == progress_ # total_

\* ProgressBar::~ProgressBar, lines 64-71, run by the owner once no thread is
\* inside a call.
Destroy ==
    /\ Alive /\ \A t \in Threads : pc[t] = "idle"
    /\ life' = "destroyed"
    /\ IF Unfinished
       THEN /\ \E r \in ShowProgress(Main, progress_, buffer_) :
                 /\ out' = out \o r.out \o Trailer
                 /\ buffer_' = r.buffer
                 /\ skipped' = skipped + r.skipped
            /\ shows' = shows + 1
       ELSE UNCHANGED <<out, buffer_, skipped, shows>>
    /\ UNCHANGED <<fixed, progress_, frequency_update, start_time_, unit_bar_,
                   unit_space_, mu_, pc, arg, after_update, ncalls, issued,
                   incs, fmoved>>

Next ==
    \/ \E t \in Threads :
          \/ Increment(t)
          \/ LoadProgress(t)
          \/ StoreStartTime(t)
          \/ AddAndAssert(t)
          \/ Decide(t)
          \/ Lock(t)
          \/ Render(t)
          \/ Draw(t)
          \/ Finish(t)
          \/ SetFrequencyUpdate(t)
          \/ LockFrequency(t)
          \/ StoreFrequency(t)
          \/ SetStyle(t)
          \/ LockStyle(t)
          \/ StoreStyle(t)
    \/ Destroy

Spec == Init /\ [][Next]_vars

\* the shape of the state
TypeOK ==
    /\ progress_ \in 0..(Modulus - 1)
    /\ Cardinality(mu_) <= 1
    /\ Len(buffer_) <= 1
    /\ life \in {"alive", "destroyed", "aborted"}

(* ------------------------- properties: shared -------------------------- *)

\* every call made on the bar has returned
AllReturned == \A t \in Threads : pc[t] = "idle"

\* the frames and log lines written so far, in write order
Frames == SelectSeq(out, LAMBDA w : w.k \in {"frame", "log"})

\* the writes of kind k so far
Count(k) == Len(SelectSeq(out, LAMBDA w : w.k = k))

\* the deltas of the increments that have not yet reached their fetch_add
Pending(t) == IF pc[t] \in {"L188", "L189", "L194"} THEN arg[t] ELSE 0

(* ------------------------------- C1 ------------------------------------ *)

\* C1, as claimed: on a non-silent bar with total > 0, once increments whose
\* deltas sum to total have all returned, the last frame written shows
\* total/total and 100.0%.  Stated for the runs most favourable to the claim,
\* those in which every ShowProgress invocation drew its frame (skipped = 0).
\* It fails: of two concurrent increments, the one that fetched the smaller
\* count can take mu_ last and write its frame after the frame of total.
C1_LastFrameShowsTotal ==
    ( /\ ~silent_ /\ total_ > 0 /\ life = "alive"
      /\ AllReturned /\ issued = total_ /\ skipped = 0 )
    => /\ Frames # << >>
       /\ Frames[Len(Frames)].p = total_
       /\ get_progress_summary(Frames[Len(Frames)].p)
            = <<"1", "0", "0", ".", "0", "%">>

(* ------------------------------- C2 ------------------------------------ *)

\* C2: on a non-silent bar whose increments sum to at most total, the counter
\* equals the sum of the deltas of the increments that have passed their
\* fetch_add, whatever the interleaving: no delta is lost or counted twice.
\* Once all calls have returned the counter is the sum of all deltas.
C2_NoLostIncrement ==
    (~silent_ /\ issued <= total_ /\ life # "aborted")
    => /\ progress_ = issued - Pending(1) - Pending(2)
       /\ AllReturned => progress_ = issued

\* C2's case: two threads have each added a positive delta and returned
C2_Witness ==
    /\ ~silent_ /\ nthreads = 2 /\ AllReturned
    /\ incs = 2 /\ arg[1] > 0 /\ arg[2] > 0
    /\ issued = total_ /\ progress_ = total_

(* ------------------------------- C3 ------------------------------------ *)

\* C3: on a non-silent bar with total > 0 whose increments sum to at most
\* total, the completing std::endl is written at most once, only by an
\* increment whose own new count equals total, and exactly once when
\* increments summing to total have all returned.
C3_CompletionOnce ==
    (~silent_ /\ total_ > 0 /\ issued <= total_)
    => /\ Count("endl") <= 1
       /\ \A i \in 1..Len(out) :
            out[i].k = "endl" => out[i].by \in Threads /\ out[i].p = total_
       /\ (AllReturned /\ issued = total_ /\ life # "aborted")
            => Count("endl") = 1

\* C3's case: two threads' increments sum to total, have returned, and the
\* line was ended
C3_Witness ==
    /\ ~silent_ /\ total_ > 0 /\ nthreads = 2 /\ AllReturned
    /\ incs = 2 /\ arg[1] > 0 /\ arg[2] > 0 /\ issued = total_
    /\ Count("endl") = 1

(* ------------------------------- C4 ------------------------------------ *)

CeilDiv(a, b) == (a + b - 1) \div b

\* C4: with total > 0 and frequency_update = f >= 1 unchanged since the first
\* increment began, the ShowProgress invocations, the constructor's included,
\* number at most ceil(total / f) + 1 over increments summing to at most total.
C4_RenderBound ==
    (total_ > 0 /\ frequency_update >= 1 /\ ~fmoved /\ issued <= total_)
    => shows <= CeilDiv(total_, frequency_update) + 1

\* C4's case: f = 2, total = 3, the increments have summed to total and
\* returned, and the bound is met exactly
C4_Witness ==
    /\ ~silent_ /\ total_ = 3 /\ frequency_update = 2 /\ ~fmoved
    /\ AllReturned /\ issued = total_ /\ incs >= 2
    /\ shows = CeilDiv(total_, frequency_update) + 1

(* ------------------------------- C5 ------------------------------------ *)

\* C5, as claimed: on a non-silent bar frequency_update is at least 1 in every
\* reachable state, whatever SetFrequencyUpdate was given.  It fails:
\* SetFrequencyUpdate(0) stores 0, and on a bar of total 0 every argument is
\* clamped to 0; the next throttle test divides by it.
C5_FrequencyAtLeastOne == ~silent_ => frequency_update >= 1

(* ------------------------------- C6 ------------------------------------ *)

\* C6: nothing is ever written to the sink of a silent bar.
C6_SilentWritesNothing == silent_ => out = << >>

\* C6's case: a silent bar of total > 0 was incremented, had a setter called
\* and was destroyed
C6_Witness ==
    /\ silent_ /\ total_ > 0 /\ life = "destroyed"
    /\ incs >= 1 /\ issued >= 1 /\ ncalls > incs

(* ------------------------------- C7 ------------------------------------ *)

\* C7, as claimed: on a silent bar the counter still advances, so that once
\* its increments have returned progress_ is the sum of their deltas.
C7_SilentCounterAdvances ==
    (silent_ /\ AllReturned /\ issued <= total_) => progress_ = issued

\* C7, amended: on a silent bar an increment returns at line 192, before the
\* fetch_add: progress_ stays 0 and no thread computes an after_update.
C7_SilentCounterStays ==
    silent_ => /\ progress_ = 0
               /\ \A t \in Threads : after_update[t] = 0 /\ pc[t] # "L194"

\* C7's case: increments of positive deltas have returned on a silent bar
C7_Witness == silent_ /\ AllReturned /\ incs >= 2 /\ issued >= 2

(* ------------------------------- C8 ------------------------------------ *)

\* C8, as claimed: the writes of one thread are never interleaved with a
\* write of another: while a thread stands between its blanking write and its
\* frame write, the last write to the sink is its own.  It fails: the
\* completing std::endl of line 206 is written without mu_.
C8_NoInterleavedWrites ==
    (~silent_ /\ nthreads = 2)
    => \A t \in Threads : pc[t] = "L161" => out[Len(out)].by = t

(* ------------------------------- C9 ------------------------------------ *)

Occurrences(text, c) == Cardinality({i \in 1..Len(text) : text[i] = c})

\* the ShowProgress invocations that have not yet written
InFlight == Cardinality({t \in Threads : pc[t] \in {"L131", "L139"}})

\* C10: in logging mode every ShowProgress invocation appends exactly one
\* line ending in its only newline, no write holds a carriage return or
\* blanks a previous frame, and buffer_ stays empty.
C10_LoggingLines ==
    (~silent_ /\ logging_mode_)
    => /\ buffer_ = << >>
       /\ Count("log") = shows - InFlight
       /\ \A i \in 1..Len(out) :
            LET text == Text(out[i])
            IN  /\ out[i].k # "blank"
                /\ Occurrences(text, "\r") = 0
                /\ Occurrences(text, "\n") = 1
                /\ text[Len(text)] = "\n"

\* C10's case: a bar in logging mode has logged from the constructor, from
\* increments and from the destructor
C10_Witness ==
    /\ ~silent_ /\ logging_mode_ /\ life = "destroyed"
    /\ Count("log") >= 3 /\ out[Len(out)].k = "nl"

(* ------------------------------- C11 ----------------------------------- *)

\* what a step has appended to the sink, its last write left out
Appended == SubSeq(out', Len(out) + 1, Len(out') - 1)

\* C11: the destructor of a non-silent bar whose progress differs from total
\* invokes ShowProgress exactly once more, with the current progress, and
\* then writes exactly one newline; the destructor of a completed bar writes
\* nothing.
C11_DestructorWrites ==
    [][ (~silent_ /\ life = "alive" /\ life' = "destroyed")
        => IF progress_ # total_
           THEN /\ shows' = shows + 1
                /\ Len(out') > Len(out)
                /\ SubSeq(out', 1, Len(out)) = out
                /\ out'[Len(out')] = Plain("nl", Main, FALSE)
                /\ \A i \in 1..Len(Appended) :
                     /\ Appended[i].k \in {"log", "blank", "frame"}
                     /\ Appended[i].by = Main
                     /\ Appended[i].k \in {"log", "frame"}
                          => Appended[i].p = progress_
                /\ Cardinality({i \in 1..Len(Appended) :
                                  Appended[i].k \in {"log", "frame"}})
                     = 1 - (skipped' - skipped)
           ELSE out' = out /\ shows' = shows ]_vars

\* C11's case: a non-silent bar was destroyed short of its total after an
\* increment, and the destructor's frame and newline are the last writes
C11_Witness ==
    /\ ~silent_ /\ life = "destroyed" /\ progress_ # total_ /\ progress_ > 0
    /\ Len(out) >= 2
    /\ out[Len(out)].k = "nl"
    /\ out[Len(out) - 1].k \in {"log", "frame"}
    /\ out[Len(out) - 1].p = progress_
    /\ out[Len(out) - 1].by = Main

(* ------------------------------- C12 ----------------------------------- *)

\* the percentage texts of every progress from 0 to total_
Summaries == {get_progress_summary(p) : p \in 0..total_}

\* C12, as claimed: for every progress from 0 to total the percentage text is
\* exactly 7 characters long, the percent sign included.  It fails:
\* kCharacterWidthPercentage counts the NUL that snprintf appends, and
\* pop_back removes it.
C12_SevenCharacters ==
    \A text \in Summaries :
        Len(text) = kCharacterWidthPercentage /\ text[Len(text)] = "%"

\* C12, amended: for every progress from 0 to total the percentage text is
\* exactly 6 characters long, the percent sign last and no NUL among them,
\* and every frame and log line written carries such a text.
C12_SixCharacters ==
    /\ \A text \in Summaries :
          /\ Len(text) = kCharacterWidthPercentage - 1
          /\ text[Len(text)] = "%"
          /\ \A i \in 1..Len(text) : text[i] # "NUL"
    /\ \A i \in 1..Len(out) :
          out[i].k \in {"frame", "log"} => out[i].p \in 0..total_

\* C12's case: frames showing 0, a part and the whole of a total of 3 have
\* been written, with percentage texts of one, two and three digits
C12_Witness ==
    /\ ~silent_ /\ total_ = 3
    /\ \E i, j, k \in 1..Len(Frames) :
          /\ Frames[i].p = 0 /\ Frames[j].p = 1 /\ Frames[k].p = 3
          /\ get_progress_summary(Frames[i].p) = <<" ", " ", "0", ".", "0", "%">>
          /\ get_progress_summary(Frames[j].p) = <<" ", "3", "3", ".", "3", "%">>
          /\ get_progress_summary(Frames[k].p) = <<"1", "0", "0", ".", "0", "%">>

(* ------------------------------- C13 ----------------------------------- *)

\* the claim's rule for an increment of delta that brought the count to
\* after, under update frequency freq: the count reached total_, or it
\* crossed into a higher bucket of freq.  No bucket is crossed when freq is 0.
Due(after, delta, freq) ==
    \/ after = total_
    \/ freq > 0 /\ (after - delta) \div freq < after \div freq

\* C13, as claimed: an increment with delta > 0 of a non-silent bar that
\* brings the count to at most total invokes ShowProgress if and only if the
\* count reached total or crossed into a higher bucket of frequency_update,
\* and writes nothing when neither is so.  It fails once SetFrequencyUpdate
\* has stored 0 (C5): the bucket test then divides by zero, and whether
\* ShowProgress is invoked no longer follows from the counts.
C13_ThrottleRule ==
    [][ \A t \in Threads :
          /\ ( /\ pc[t] = "L200" /\ pc'[t] # "L200"
               /\ arg[t] > 0 /\ after_update[t] >= arg[t] )
             => LET due == Due(after_update[t], arg[t], frequency_update)
                IN  /\ (pc'[t] = "L131") <=> due
                    /\ (shows' = shows + 1) <=> due
                    /\ ~due => out' = out
          /\ ( /\ pc[t] = "L205" /\ pc'[t] = "idle"
               /\ after_update[t] # total_ )
             => out' = out ]_vars

(* ------------------------------- C14 ----------------------------------- *)

\* thread t is about to read frequency_update in the throttle test: the test
\* of line 200 short-circuits when the count reached total_
ReadsFrequency(t) == pc[t] = "L200" /\ after_update[t] # total_

\* thread t is about to read unit_bar_ and unit_space_ in the renderer
ReadsStyle(t) == pc[t] = "L161"

\* C14, as claimed: no read of frequency_update by the throttle test and no
\* read of the style characters by the renderer happens while a setter is
\* writing them or outside mu_.  Stated in its weakest form for
\* frequency_update, that no throttle test reads it while SetFrequencyUpdate
\* is between taking mu_ and storing.  It fails: operator+= reads
\* frequency_update at lines 201-202 without taking mu_.
C14_SettersExcludeReaders ==
    \A t \in Threads :
        /\ ReadsFrequency(t) => \A u \in Threads : pc[u] # "L76"
        /\ ReadsStyle(t) => t \in mu_ /\ \A u \in Threads : pc[u] # "L86"

(* ------------------------------- C15 ----------------------------------- *)

\* the claim's expression for the bar length, in unbounded integers
BarFormula(width) ==
    Min(width, kMaxBarWidth) - 9 - kMessageSize - kCharacterWidthPercentage
    - 2 * NumDigits(Max(total_, 2))

\* C15, as claimed: whenever the claim's expression is below 1 for the
\* console width, negative values included, GetBarLength returns a value
\* below 1 and the interactive render draws no frame: every frame written
\* has the bar length that the expression gives for a width that leaves room
\* for it.  It fails for widths below the reserved overhead: the size_t
\* subtraction wraps and the conversion of the result to int is undefined.
C15_NoFrameBelowOne ==
    /\ \A width \in ConsoleWidths :
          BarFormula(width) < 1 => \A bar \in GetBarLength(width) : bar < 1
    /\ \A i \in 1..Len(out) :
          out[i].k = "frame"
          => \E width \in ConsoleWidths :
                BarFormula(width) >= 1 /\ out[i].bar = BarFormula(width)

(* ------------------------------- C16 ----------------------------------- *)

\* C16: a non-silent bar constructed with total 0 is complete from the
\* start.  Until an increment is made, and through its destruction, the
\* sink holds what the constructor wrote and no more: one ShowProgress
\* invocation whose frame or log line shows ratio 1.0 (a full bar, 100.0%)
\* and the counter 0/0, then the completing std::endl, once and last.
C16_ZeroTotalComplete ==
    (~silent_ /\ total_ = 0 /\ incs = 0)
    => /\ shows = 1
       /\ Len(Frames) = 1 - skipped
       /\ \A i \in 1..Len(Frames) :
            /\ Frames[i].p = 0 /\ Frames[i].by = Main
            /\ get_progress_summary(Frames[i].p)
                 = <<"1", "0", "0", ".", "0", "%">>
            /\ to_string(Frames[i].p) \o <<"/">> \o to_string(total_)
                 = <<"0", "/", "0">>
            /\ Filled(Frames[i].bar, Frames[i].p) = Frames[i].bar
       /\ Count("endl") = 1
       /\ Count("nl") = 0
       /\ out[Len(out)] = EndLine(Main, FALSE, 0)

\* C16's case: a non-silent bar of total 0 that drew its initial frame has
\* been destroyed without any increment
C16_Witness ==
    /\ ~silent_ /\ total_ = 0 /\ incs = 0 /\ life = "destroyed"
    /\ Len(Frames) = 1
    /\ out[Len(out)].k = "endl"

(* ------------------------------- C17 ----------------------------------- *)

\* C17, as claimed: start_time_ is captured exactly once, by the first
\* increment call made while progress is 0, and no later increment call
\* changes it.  Stated for the calls most favourable to the claim, those
\* with a positive delta on a non-silent bar.  It fails: every call that
\* loads progress_ == 0 at line 188 stores the time at line 189, and a
\* second call can load 0 before the first has added its delta.
C17_StartTimeCapturedOnce ==
    [][ \A t \in Threads :
          ( /\ pc[t] = "L189" /\ pc'[t] # "L189"
            /\ ~silent_ /\ arg[t] > 0
            /\ start_time_ # << >> )
          => start_time_' = start_time_ ]_vars

(* ------------------------------- C18 ----------------------------------- *)

\* the steps thread t takes inside a call it has made
Step(t) ==
    \/ LoadProgress(t) \/ StoreStartTime(t) \/ AddAndAssert(t) \/ Decide(t)
    \/ Lock(t) \/ Render(t) \/ Draw(t) \/ Finish(t)
    \/ LockFrequency(t) \/ StoreFrequency(t)
    \/ LockStyle(t) \/ StoreStyle(t)

\* The bars whose calls are followed to their return: those constructed with
\* a total one below the largest, which the deltas can reach, fall short of,
\* overshoot and wrap around.
FairInit == Init /\ total_ = MaxTotal - 1

\* Fair scheduling: a thread inside a call that can take its next step is
\* not passed over for ever.  Making a call, and destroying the bar, are the
\* host's choice and carry no fairness.
FairSpec ==
    FairInit /\ [][Next]_vars /\ \A t \in Threads : WF_vars(Step(t))

\* C18, as claimed: under fair scheduling every call made on the bar
\* eventually returns.  Stated leaving aside the calls whose bucket test
\* divides by a zero frequency_update (C5).  It fails: a call whose delta
\* carries the count past total ends in the fatal assertion of line 197 and
\* never returns.
C18_EveryCallReturns ==
    \A t \in Threads : (pc[t] # "idle") ~> (pc[t] = "idle" \/ pc[t] = "L201")

\* the holder of mu_ is inside a guarded scope, and a thread about to take
\* mu_ does not hold it
LockDiscipline ==
    \A t \in Threads :
        /\ t \in mu_ => pc[t] \in {"L76", "L86", "L139", "L161"}
        /\ pc[t] \in {"idle", "L74", "L84", "L131"} => t \notin mu_

\* C18, amended: under fair scheduling every call made on the bar eventually
\* returns or the process is aborted; mu_ is never taken by the thread that
\* holds it, is free whenever its last holder has returned, and is free when
\* the process has not aborted and every call has returned.
C18_NoCallBlocks ==
    /\ \A t \in Threads :
          (pc[t] # "idle") ~> (pc[t] = "idle" \/ life = "aborted")
    /\ [](LockDiscipline /\ Cardinality(mu_) <= 1)
    /\ []((AllReturned /\ life # "aborted") => mu_ = {})

\* C18's case: both threads have contended for mu_, one as a setter and one
\* as a renderer, and every call has returned
C18_Witness ==
    /\ total_ = MaxTotal - 1
    /\ AllReturned /\ life = "alive" /\ nthreads = 2 /\ mu_ = {}
    /\ ncalls >= 2 /\ incs >= 1 /\ shows >= 2
    /\ \E i \in 1..Len(out) : out[i].k \in {"frame", "log"} /\ out[i].by = 2

(* ------------------------------- C19 ----------------------------------- *)

\* C19, as claimed: the frames written to the sink show a progress that
\* never decreases in write order, under any interleaving of increments.
\* Stated for the bars whose deltas sum to at most total, so that the counter
\* itself never decreases.  It fails: the count is fetched at line 195 and
\* mu_ taken only at line 131, so of two concurrent increments the one that
\* fetched the smaller count can write its frame last.
C19_FramesNonDecreasing ==
    (~silent_ /\ issued <= total_)
    => \A i, j \in 1..Len(Frames) : i < j => Frames[i].p <= Frames[j].p

(* ------------------------------- C20 ----------------------------------- *)

\* C20, as claimed: every frame and log line computes its remaining time
\* from a start_time_ that an increment has stored, the constructor's
\* initial render and the destructor's forced render included.  It fails:
\* the constructor renders at line 58, before any increment can have run
\* line 189.
C20_NoFrameFromUnsetStartTime ==
    \A i \in 1..Len(Frames) : Frames[i].st # << >>

====
